---------------------------- MODULE Spec2Model ----------------------------
(***************************************************************************)
(* Model of Android/Forma-MediaPipe/scripts/download_mediapipe_lite.py:    *)
(* the script that creates assets/models, retrieves the pose model with    *)
(* urllib.request.urlretrieve and a progress callback, reads the file      *)
(* size back and exits with 0 or 1.                                        *)
(*                                                                         *)
(* The file system is reduced to what the script touches: the destination  *)
(* directory, the destination file and one unrelated file next to it.      *)
(* The server is the environment: it refuses, or answers with a            *)
(* Content-Length header (or none) and a body that may stop early.         *)
(* Several runs of the script follow each other on the same file system.   *)
(***************************************************************************)
EXTENDS Integers, Sequences, FiniteSets, TLC

\* ---- bounds of the model ------------------------------------------------
\* Largest Content-Length / body length the server uses.
MaxSize == 5
\* Read size of urlretrieve (bs = 1024*8 in the library), scaled down.
BlockSize == 2
\* Number of runs of the script on the same file system.
MaxRuns == 2

VARIABLES
    pc,         \* position of the run in the script
    run,        \* number of the current run (1..MaxRuns)
    dir,        \* MODEL_DIR on disk: "absent", "present", "blocked"
    dest,       \* content of MODEL_DIR / MODEL_FILE, NoFile when absent
    other,      \* content of an unrelated file in MODEL_DIR, NoFile when absent
    size,       \* total_size handed to the callback (-1: no Content-Length)
    body,       \* bytes the server delivers in this run
    read,       \* bytes read from the response so far
    blocknum,   \* blocks read so far
    reports,    \* the progress lines printed in this run
    out,        \* the other lines printed in this run, in order
    ret,        \* "none", "True" or "False": what download_model returned
    exitCode,   \* -1 while running, else the exit status of the process
    err,        \* what raised in this run: "none", "mkdir", "urlopen", "open",
                \* "io", "short" or "stat"
    fetches,    \* calls of urlretrieve in this run
    opened,     \* the destination file was opened for writing in this run
    made,       \* mkdir returned without raising in this run
    dirAtStart, \* dir when the run began
    prevRet     \* ret of the previous run ("none" in the first run)

vars == <<pc, run, dir, dest, other, size, body, read, blocknum, reports, out,
          ret, exitCode, err, fetches, opened, made, dirAtStart, prevRet>>

\* A path that does not exist (file contents are sequences of bytes >= 0).
NoFile == <<-1>>

Min(a, b) == IF a <= b THEN a ELSE b

\* ---- the progress callback ------------------------------------------------

\* 2^k mod 20 for k >= 2.
Pow2Mod20(k) == CASE (k - 2) % 4 = 0 -> 4
                  [] (k - 2) % 4 = 1 -> 8
                  [] (k - 2) % 4 = 2 -> 16
                  [] (k - 2) % 4 = 3 -> 12

\* Binary exponent of m/20 for 1 <= m < 2000.
Exponent20(m) == CHOOSE e \in -5..6 :
                    IF e >= 0 THEN 20 * 2^e <= m /\ m < 20 * 2^(e + 1)
                              ELSE 20 <= m * 2^(0 - e) /\ m * 2^(0 - e) < 40

\* f"{percent:.1f}" for percent = n/d as Python computes it (a double), in
\* tenths of a percent.  A double is printed correctly rounded, so only a
\* quotient exactly halfway between two tenths needs the double itself:
\* (2t+1)/20 goes to the even tenth when it is a double (5 divides 2t+1),
\* else to the side on which its nearest double lies.
F1(n, d) ==
    LET t == (n * 10) \div d
        r == (n * 10) % d
        m == 2 * t + 1
        rr == (m * Pow2Mod20(52 - Exponent20(m))) % 20
    IN  IF 2 * r < d THEN t
        ELSE IF 2 * r > d THEN t + 1
        ELSE IF rr = 0 THEN (IF t % 2 = 0 THEN t ELSE t + 1)
        ELSE IF rr < 10 THEN t
        ELSE t + 1


\* Variant: the block count taken for the byte count.
Downloaded_BlockCount(block_num, block_size) == block_num

\* downloaded = block_num * block_size
Downloaded(block_num, block_size) == block_num * block_size

\* Variant: the percentage without the cap at 100.
Percent_NoCap(downloaded, total_size) ==
    IF total_size > 0 THEN <<downloaded * 100, total_size>> ELSE <<0, 1>>

\* percent = min(downloaded * 100 / total_size, 100) if total_size > 0 else 0,
\* as the exact fraction <<numerator, denominator>>.
Percent(downloaded, total_size) ==
    IF total_size > 0
    THEN IF downloaded * 100 > 100 * total_size
         THEN <<100, 1>>
         ELSE <<downloaded * 100, total_size>>
    ELSE <<0, 1>>

\* The line the callback prints: the percentage to one decimal (in tenths),
\* the amount downloaded and the total, both taken from the callback's own
\* figures.
show_progress(block_num, block_size, total_size) ==
    LET downloaded == Downloaded(block_num, block_size)
        percent == Percent(downloaded, total_size)
    IN  [percent |-> percent,
         shown |-> F1(percent[1], percent[2]),
         downloaded |-> downloaded,
         total |-> total_size]

\* One entry of reports: the printed line, and the bytes really read from
\* the response when the callback ran.
Report(block_num, total_size, bytesRead) ==
    [line |-> show_progress(block_num, BlockSize, total_size),
     actual |-> bytesRead]

\* ---- the file system ------------------------------------------------------

\* Variant: mkdir without exist_ok, which also rejects an existing directory.
MkdirRaises_NoExistOk(d) == d \in {"blocked", "present"}

\* MODEL_DIR.mkdir(parents=True, exist_ok=True) raises when the directory
\* cannot be created; an existing directory is accepted.
MkdirRaises(d) == d = "blocked"

\* The directory after a mkdir that did not raise.
MkdirResult(d) == IF d = "absent" THEN "present" ELSE d

\* Variant: the destination opened for appending.
OpenAB(content) == IF content = NoFile THEN <<>> ELSE content

\* open(filename, 'wb') inside urlretrieve: the file is created or truncated.
OpenWB(content) == <<>>

\* tfp.write(block)
WriteBlock(content, block) == content \o block

\* ---- the server -----------------------------------------------------------

\* The bytes served in run r: len bytes, all tagged with the run.
Payload(r, len) == [i \in 1..len |-> r]

\* Content-Length values: -1 stands for a response without the header.
Sizes == -1..MaxSize

\* Body lengths the response can deliver for a given header: http.client
\* clips reads at Content-Length, and the connection may end early.
BodyLengths(sz) == IF sz >= 0 THEN 0..sz ELSE 0..MaxSize

\* ---- process exit ---------------------------------------------------------

\* Variant: sys.exit(success), where True exits with 1 and False with 0.
ExitStatus_Bool(success) == IF success THEN 1 ELSE 0

\* sys.exit(0 if success else 1)
ExitStatus(success) == IF success THEN 0 ELSE 1

\* Status of a process that ends on an uncaught exception.
UncaughtStatus == 1

\* The errors of the transfer step (line 37).
TransferErrors == {"urlopen", "open", "io", "short"}

\* ---- initial state --------------------------------------------------------

Init ==
    /\ pc = "main"
    /\ run = 1
    /\ dir \in {"absent", "present", "blocked"}
    /\ dest \in IF dir = "present" THEN {NoFile, <<0, 0, 0>>} ELSE {NoFile}
    /\ other \in IF dir = "present" THEN {NoFile, <<7>>} ELSE {NoFile}
    /\ size = -1
    /\ body = <<>>
    /\ read = 0
    /\ blocknum = 0
    /\ reports = <<>>
    /\ out = <<>>
    /\ ret = "none"
    /\ exitCode = -1
    /\ err = "none"
    /\ fetches = 0
    /\ opened = FALSE
    /\ made = FALSE
    /\ dirAtStart = dir
    /\ prevRet = "none"

\* ---- the script -----------------------------------------------------------

\* Variant: the fetch started without the directory step.
Main_SkipMkdir ==
    /\ pc = "main"
    /\ pc' = "urlopen"
    /\ UNCHANGED <<run, dir, dest, other, size, body, read, blocknum, reports,
                   out, ret, exitCode, err, fetches, opened, made, dirAtStart,
                   prevRet>>

\* Lines 54-59: chdir to the project directory and call download_model.
Main ==
    /\ pc = "main"
    /\ pc' = "mkdir"
    /\ UNCHANGED <<run, dir, dest, other, size, body, read, blocknum, reports,
                   out, ret, exitCode, err, fetches, opened, made, dirAtStart, prevRet>>

\* Line 22 raising: it stands before the try, so the exception leaves
\* download_model.
MkdirFail ==
    /\ pc = "mkdir"
    /\ MkdirRaises(dir)
    /\ pc' = "raised"
    /\ err' = "mkdir"
    /\ UNCHANGED <<run, dir, dest, other, size, body, read, blocknum, reports,
                   out, ret, exitCode, fetches, opened, made, dirAtStart, prevRet>>

\* Lines 22-28: the directory exists afterwards; the three header lines.
MkdirOk ==
    /\ pc = "mkdir"
    /\ ~MkdirRaises(dir)
    /\ dir' = MkdirResult(dir)
    /\ out' = out \o <<"Downloading", "URL", "Destination">>
    /\ made' = TRUE
    /\ pc' = "urlopen"
    /\ UNCHANGED <<run, dest, other, size, body, read, blocknum, reports,
                   ret, exitCode, err, fetches, opened, dirAtStart, prevRet>>

\* Line 37, urlopen raising (DNS, connection, HTTP error status): nothing
\* has been opened for writing yet.
UrlOpenFail ==
    /\ pc = "urlopen"
    /\ fetches' = fetches + 1
    /\ err' = "urlopen"
    /\ pc' = "except"
    /\ UNCHANGED <<run, dir, dest, other, size, body, read, blocknum, reports,
                   out, ret, exitCode, opened, made, dirAtStart, prevRet>>

\* Line 37, the response arrived but open(filename, 'wb') raises: always
\* when the directory is missing, and possibly otherwise (permissions).
OpenFail ==
    /\ pc = "urlopen"
    /\ fetches' = fetches + 1
    /\ err' = "open"
    /\ pc' = "except"
    /\ UNCHANGED <<run, dir, dest, other, size, body, read, blocknum, reports,
                   out, ret, exitCode, opened, made, dirAtStart, prevRet>>

\* Line 37, the response arrived and the destination is opened: the file is
\* truncated, the header is read, the callback runs for block 0.
UrlOpenOk ==
    /\ pc = "urlopen"
    /\ dir = "present"
    /\ \E sz \in Sizes : \E len \in BodyLengths(sz) :
          /\ size' = sz
          /\ body' = Payload(run, len)
          /\ reports' = reports \o <<Report(0, sz, 0)>>
    /\ fetches' = fetches + 1
    /\ dest' = OpenWB(dest)
    /\ opened' = TRUE
    /\ read' = 0
    /\ blocknum' = 0
    /\ pc' = "loop"
    /\ UNCHANGED <<run, dir, other, out, ret, exitCode, err, made, dirAtStart,
                   prevRet>>

\* Line 37, one turn of urlretrieve's loop: read up to bs bytes, write them,
\* count the block, call the callback.
ReadBlock ==
    /\ pc = "loop"
    /\ read < Len(body)
    /\ LET n == Min(BlockSize, Len(body) - read)
           block == SubSeq(body, read + 1, read + n)
       IN  /\ read' = read + n
           /\ dest' = WriteBlock(dest, block)
           /\ blocknum' = blocknum + 1
           /\ reports' = reports \o <<Report(blocknum + 1, size, read + n)>>
    /\ UNCHANGED <<pc, run, dir, other, size, body, out, ret, exitCode, err,
                   fetches, opened, made, dirAtStart, prevRet>>

\* Line 37, a read or a write raising in the middle of the transfer; what
\* was written stays in the destination file.
TransferError ==
    /\ pc = "loop"
    /\ err' = "io"
    /\ pc' = "except"
    /\ UNCHANGED <<run, dir, dest, other, size, body, read, blocknum, reports,
                   out, ret, exitCode, fetches, opened, made, dirAtStart, prevRet>>

\* Line 37, end of the body with fewer bytes than Content-Length announced:
\* urlretrieve raises ContentTooShortError.
TooShort ==
    /\ pc = "loop"
    /\ read = Len(body)
    /\ size >= 0 /\ read < size
    /\ err' = "short"
    /\ pc' = "except"
    /\ UNCHANGED <<run, dir, dest, other, size, body, read, blocknum, reports,
                   out, ret, exitCode, fetches, opened, made, dirAtStart, prevRet>>

\* Lines 37-38: urlretrieve returns; the line after the progress display.
FinishTransfer ==
    /\ pc = "loop"
    /\ read = Len(body)
    /\ ~(size >= 0 /\ read < size)
    /\ out' = out \o <<"newline">>
    /\ pc' = "stat"
    /\ UNCHANGED <<run, dir, dest, other, size, body, read, blocknum, reports,
                   ret, exitCode, err, fetches, opened, made, dirAtStart, prevRet>>

\* Variant: the success line printed before the size is read back.
StatFail_AfterSuccessLine ==
    /\ pc = "stat"
    /\ out' = out \o <<"Successfully downloaded">>
    /\ err' = "stat"
    /\ pc' = "except"
    /\ UNCHANGED <<run, dir, dest, other, size, body, read, blocknum, reports,
                   ret, exitCode, fetches, opened, made, dirAtStart, prevRet>>

\* Line 41 raising: the size cannot be read back.
StatFail ==
    /\ pc = "stat"
    /\ err' = "stat"
    /\ pc' = "except"
    /\ UNCHANGED <<run, dir, dest, other, size, body, read, blocknum, reports,
                   out, ret, exitCode, fetches, opened, made, dirAtStart, prevRet>>

\* Lines 41-46: the size is read back, the success lines, return True.
StatOk ==
    /\ pc = "stat"
    /\ dest # NoFile
    /\ out' = out \o <<"Successfully downloaded", "File size", "Location">>
    /\ ret' = "True"
    /\ pc' = "returned"
    /\ UNCHANGED <<run, dir, dest, other, size, body, read, blocknum, reports,
                   exitCode, err, fetches, opened, made, dirAtStart, prevRet>>

\* Variant: the handler starts the fetch again.
Except_Retry ==
    /\ pc = "except"
    /\ out' = out \o <<"Download failed">>
    /\ pc' = "urlopen"
    /\ UNCHANGED <<run, dir, dest, other, size, body, read, blocknum, reports,
                   ret, exitCode, err, fetches, opened, made, dirAtStart, prevRet>>

\* Lines 47-52: the handler of the try block, return False.
Except ==
    /\ pc = "except"
    /\ out' = out \o <<"Download failed", "Please download manually",
                       "URL", "Save to">>
    /\ ret' = "False"
    /\ pc' = "returned"
    /\ UNCHANGED <<run, dir, dest, other, size, body, read, blocknum, reports,
                   exitCode, err, fetches, opened, made, dirAtStart, prevRet>>

\* Line 60: sys.exit(0 if success else 1)
SysExit ==
    /\ pc = "returned"
    /\ exitCode' = ExitStatus(ret = "True")
    /\ pc' = "exit"
    /\ UNCHANGED <<run, dir, dest, other, size, body, read, blocknum, reports,
                   out, ret, err, fetches, opened, made, dirAtStart, prevRet>>

\* Line 59: an exception that left download_model ends the process.
Uncaught ==
    /\ pc = "raised"
    /\ exitCode' = UncaughtStatus
    /\ pc' = "exit"
    /\ UNCHANGED <<run, dir, dest, other, size, body, read, blocknum, reports,
                   out, ret, err, fetches, opened, made, dirAtStart, prevRet>>

\* The script is started again on the file system the last run left.
NewRun ==
    /\ pc = "exit"
    /\ run < MaxRuns
    /\ run' = run + 1
    /\ pc' = "main"
    /\ prevRet' = ret
    /\ dirAtStart' = dir
    /\ size' = -1
    /\ body' = <<>>
    /\ read' = 0
    /\ blocknum' = 0
    /\ reports' = <<>>
    /\ out' = <<>>
    /\ ret' = "none"
    /\ exitCode' = -1
    /\ err' = "none"
    /\ fetches' = 0
    /\ opened' = FALSE
    /\ made' = FALSE
    /\ UNCHANGED <<dir, dest, other>>

Next ==
    \/ Main
    \/ MkdirFail
    \/ MkdirOk
    \/ UrlOpenFail
    \/ OpenFail
    \/ UrlOpenOk
    \/ ReadBlock
    \/ TransferError
    \/ TooShort
    \/ FinishTransfer
    \/ StatFail
    \/ StatOk
    \/ Except
    \/ SysExit
    \/ Uncaught
    \/ NewRun

Spec == Init /\ [][Next]_vars

\* ---- properties ------------------------------------------------------------

Range(q) == {q[i] : i \in 1..Len(q)}

\* The failure message followed by the manual-recovery instructions are the
\* last lines printed.
FailureLinesLast ==
    /\ Len(out) >= 4
    /\ SubSeq(out, Len(out) - 3, Len(out)) =
          <<"Download failed", "Please download manually", "URL", "Save to">>

\* urlretrieve returned without raising in this run.
TransferSucceeded == "newline" \in Range(out)

\* The percentages printed so far never go down.
NonDecreasing ==
    \A i \in 1..Len(reports) : \A j \in i..Len(reports) :
        reports[i].line.shown <= reports[j].line.shown

\* min(100, bytes * 100 / total) as a fraction, 0 when total is not positive.
SpecPercent(bytes, total) ==
    IF total > 0
    THEN IF bytes >= total THEN <<100, 1>> ELSE <<bytes * 100, total>>
    ELSE <<0, 1>>

\* Equality of two fractions.
SameFraction(a, b) == a[1] * b[2] = b[1] * a[2]

\* The three states of a run.
Status ==
    IF pc = "main" THEN "NotStarted"
    ELSE IF pc # "exit" THEN "InProgress"
    ELSE IF exitCode = 0 THEN "Succeeded"
    ELSE "Failed"

\* C1: a run that ended has exit code 0 exactly when download_model
\* returned True, and exit code 1 in every other case, whichever step raised
\* (directory creation, transfer, size read-back).
C1_ExitCodeMatchesOutcome ==
    pc = "exit" =>
        /\ exitCode \in {0, 1}
        /\ (exitCode = 0) <=> (ret = "True")
        /\ (err # "none") => (exitCode = 1 /\ ret # "True")
        /\ (err = "none") => exitCode = 0

\* A second run fails at the size read-back and exits 1 after a first run
\* that succeeded.
C1_Witness ==
    /\ pc = "exit" /\ run = 2 /\ prevRet = "True"
    /\ err = "stat" /\ exitCode = 1

\* C2: an error raised by the directory creation or by the transfer never
\* leaves download_model: the function prints the error and the
\* manual-recovery instructions and returns False.
C2_EveryErrorCaught ==
    (err \in {"mkdir"} \cup TransferErrors) =>
        /\ pc # "raised"
        /\ pc \in {"returned", "exit"} => (ret = "False" /\ FailureLinesLast)

\* C3: a run that fails has printed no success line, and the success line
\* and the failure line never both appear in one run.
C3_NoSuccessLineOnFailure ==
    /\ (ret = "False" \/ err # "none" \/ exitCode = 1) =>
           "Successfully downloaded" \notin Range(out)
    /\ ~("Successfully downloaded" \in Range(out) /\ "Download failed" \in Range(out))
    /\ "Successfully downloaded" \in Range(out) => ret = "True"

\* The transfer completed, the size read-back failed, the run exited with 1.
C3_Witness ==
    /\ pc = "exit" /\ exitCode = 1 /\ err = "stat"
    /\ TransferSucceeded /\ "Download failed" \in Range(out)

\* C4 as stated: after a successful transfer with a known total size
\* (a Content-Length header was sent), the printed percentages are
\* non-decreasing and the last one is 100.0.
C4_KnownSizeEndsAt100 ==
    (TransferSucceeded /\ size >= 0) =>
        /\ NonDecreasing
        /\ reports[Len(reports)].line.shown = 1000

\* C4 amended: after a successful transfer with a known total size greater
\* than zero, the printed percentages are non-decreasing and the last one is
\* 100.0.
C4_PositiveSizeEndsAt100 ==
    (TransferSucceeded /\ size > 0) =>
        /\ NonDecreasing
        /\ reports[Len(reports)].line.shown = 1000

\* A successful transfer whose last block is partial, reported in steps.
C4_Witness ==
    /\ TransferSucceeded /\ size > 0 /\ size % BlockSize # 0
    /\ Len(reports) >= 3
    /\ reports[2].line.shown > 0 /\ reports[2].line.shown < 1000

\* C5: every progress report shows min(100, bytes * 100 / total) of the bytes
\* figure of that report when the total is positive and 0 when the total is
\* unknown or zero; the percentage lies between 0 and 100.
C5_PercentFormula ==
    \A i \in 1..Len(reports) :
        LET l == reports[i].line IN
        /\ SameFraction(l.percent, SpecPercent(l.downloaded, l.total))
        /\ l.shown = F1(SpecPercent(l.downloaded, l.total)[1],
                        SpecPercent(l.downloaded, l.total)[2])
        /\ l.total <= 0 => l.shown = 0
        /\ l.percent[1] >= 0 /\ l.percent[1] <= 100 * l.percent[2]
        /\ l.shown >= 0 /\ l.shown <= 1000

\* One run has printed a percentage strictly between 0 and 100 and then a
\* line whose bytes figure is above the total, where the cap applies.
C5_Witness ==
    /\ size > 0
    /\ \E i \in 1..Len(reports) :
          reports[i].line.shown > 0 /\ reports[i].line.shown < 1000
    /\ \E i \in 1..Len(reports) : reports[i].line.downloaded > size

\* C6: when a run succeeds after a run that succeeded, the destination file
\* holds exactly the bytes of the second transfer.
C6_SecondTransferOnly ==
    (pc = "exit" /\ ret = "True" /\ prevRet = "True") => dest = body

\* Two successful runs, the second with a non-empty body.
C6_Witness ==
    /\ pc = "exit" /\ ret = "True" /\ prevRet = "True" /\ run = 2
    /\ Len(body) > 0 /\ Len(body) < MaxSize

\* C7: within a run the only transitions are NotStarted -> InProgress,
\* InProgress -> Succeeded and InProgress -> Failed; Succeeded and Failed
\* have no outgoing transition, and at most one fetch is attempted.
C7_RunTransitions ==
    [][run' = run =>
          /\ \/ Status' = Status
             \/ <<Status, Status'>> \in {<<"NotStarted", "InProgress">>,
                                         <<"InProgress", "Succeeded">>,
                                         <<"InProgress", "Failed">>}
          /\ fetches' <= 1]_vars

\* A run whose fetch failed has ended as Failed with one fetch attempted.
C7_Witness ==
    /\ pc = "exit" /\ Status = "Failed" /\ fetches = 1 /\ err \in TransferErrors

\* C8: in a run that found the destination directory present, the
\* directory step does not raise, and the unrelated file keeps its content.
C8_ExistingDirUntouched ==
    [][(run' = run /\ dirAtStart = "present") =>
          /\ err' # "mkdir"
          /\ pc' # "raised"
          /\ dir' = "present"
          /\ other' = other]_vars

\* A run with the directory and an unrelated file present has passed the
\* directory step and ended.
C8_Witness ==
    /\ dirAtStart = "present" /\ other # NoFile /\ made
    /\ pc = "exit" /\ opened

\* C9: the destination is opened for writing only after the directory step
\* succeeded, with the directory present, and never in a run whose directory
\* step raised.
C9_DirBeforeWrite ==
    /\ opened => (made /\ dir = "present")
    /\ dest # NoFile => dir = "present"
    /\ err = "mkdir" => (~opened /\ fetches = 0)

\* The first bytes are written in a directory this run created.
C9_Witness ==
    /\ dirAtStart = "absent" /\ run = 1 /\ opened /\ pc = "loop"
    /\ Len(dest) > 0

\* C10: in every progress report the bytes-so-far figure equals the bytes
\* really transferred, and does not exceed a known total.
C10_BytesFigureIsActual ==
    \A i \in 1..Len(reports) :
        LET l == reports[i].line IN
        /\ l.downloaded = reports[i].actual
        /\ l.total >= 0 => l.downloaded <= l.total

=============================================================================
